---------------------------- MODULE Spec2Model ----------------------------
(***************************************************************************)
(* State-machine model of the staking contract in src/src/lib.rs           *)
(* (StakingContract): deposits through ft_on_transfer, withdrawals through *)
(* unstake and its callback on_ft_transfer_then_remove, the owner's        *)
(* configuration calls, and the queries.                                   *)
(*                                                                         *)
(* Every handler is an operator from the contract state (a record of the   *)
(* struct's fields) and the call's inputs to an outcome: the state as the  *)
(* handler left it, the panic message if it panicked, its return value and *)
(* the promise it scheduled.  The surrounding action applies the runtime's *)
(* rule that a panicking call commits nothing.                             *)
(*                                                                         *)
(* Scaling.  TLC's integers are 32 bits wide, so                           *)
(*   - token amounts are counted in whole tokens (the source counts in     *)
(*     10^-18 tokens: STAKE_AMOUNT is 100 tokens in both);                 *)
(*   - u64 and u128 are modelled with U64Bits and U128Bits bits.           *)
(* Amounts notified by the token contract are bounded by the token's       *)
(* supply, itself a u128, so sums of deposited amounts stay far below      *)
(* U128MAX; the lock duration is a free u64 input of the owner and ranges  *)
(* up to U64MAX.                                                           *)
(***************************************************************************)
EXTENDS Integers, Sequences, FiniteSets, TLC

(***************************************************************************)
(* Bounds of the model.                                                    *)
(***************************************************************************)
MaxStakeUnits == 2      \* amounts range over 0 .. MaxStakeUnits * STAKE_AMOUNT
MaxTicks == 2           \* the block timestamp advances MaxTicks half seconds
U64Bits == 21           \* modelled width of u64
U128Bits == 24          \* modelled width of u128
MaxRun == 3             \* longest sequence of deposits of one account considered
Usize32Bits == 10       \* modelled width of usize on a 32-bit target (wasm32)

(***************************************************************************)
(* Program constants.                                                      *)
(***************************************************************************)
WEEK == 7 * 24 * 60 * 60
STAKE_AMOUNT == 100
NANOSECONDS == 1000000000

U64MAX == 2 ^ U64Bits - 1
U128MAX == 2 ^ U128Bits - 1
USIZE32MAX == 2 ^ Usize32Bits - 1

\* usize::MAX of the targets the crate builds for: wasm32 for deployment,
\* a 64-bit host for the unit tests
Targets == {USIZE32MAX, U64MAX}

(***************************************************************************)
(* Identities and input sets.                                              *)
(***************************************************************************)
Users == {"alice", "bob"}
Owner0 == "owner"
Token == "token.testnet"
Contract == "vault"                 \* env::current_account_id()
Ids == Users \cup {Owner0, Token}

Amounts == {k * STAKE_AMOUNT : k \in 0 .. MaxStakeUnits}
LockChoices == {1, 2 * WEEK, U64MAX}
HalfSecond == NANOSECONDS \div 2

NoStake == [amount |-> 0, start_time |-> 0, present |-> FALSE]
NoAccount == "-"
None == -1                          \* Option::None of an Option<u64> argument

VARIABLES
    owner_id,          \* StakingContract.owner_id
    token_contract,    \* StakingContract.token_contract
    staked_balances,   \* UnorderedMap<AccountId, StakeInfo>: sequence of entries
    user_states,       \* UnorderedMap<AccountId, UserOperationState>
    stake_amount,      \* StakingContract.stake_amount
    lock_duration,     \* StakingContract.lock_duration
    stake_paused,      \* StakingContract.stake_paused
    total_staked,      \* StakingContract.total_staked
    total_user,        \* StakingContract.total_user
    block_timestamp,   \* env::block_timestamp(), nanoseconds
    promises,          \* scheduled ft_transfer + callback pairs not yet resolved
    overflow_checks,   \* whether the build panics on integer overflow
    last               \* the deposit, unstake or callback that returned last

contract_vars == <<owner_id, token_contract, staked_balances, user_states,
                   stake_amount, lock_duration, stake_paused, total_staked,
                   total_user>>
vars == <<owner_id, token_contract, staked_balances, user_states,
          stake_amount, lock_duration, stake_paused, total_staked,
          total_user, block_timestamp, promises, overflow_checks, last>>

(***************************************************************************)
(* UnorderedMap<AccountId, StakeInfo>: a vector of entries; insert         *)
(* overwrites in place or appends, remove swaps the last entry into the    *)
(* hole.                                                                   *)
(***************************************************************************)
MapIndex(m, k) ==
    IF \E i \in DOMAIN m : m[i].key = k
    THEN CHOOSE i \in DOMAIN m : m[i].key = k
    ELSE 0

MapHas(m, k) == MapIndex(m, k) # 0

MapGet(m, k) ==
    IF MapHas(m, k)
    THEN [amount |-> m[MapIndex(m, k)].value.amount,
          start_time |-> m[MapIndex(m, k)].value.start_time,
          present |-> TRUE]
    ELSE NoStake

MapInsert(m, k, v) ==
    IF MapHas(m, k)
    THEN [m EXCEPT ![MapIndex(m, k)] = [key |-> k, value |-> v]]
    ELSE Append(m, [key |-> k, value |-> v])

\* slips of remove: nothing is removed; the last entry is removed instead
MapRemove_keep(m, k) == m

MapRemove_pop(m, k) ==
    IF ~MapHas(m, k) THEN m ELSE SubSeq(m, 1, Len(m) - 1)

MapRemove(m, k) ==
    IF ~MapHas(m, k) THEN m
    ELSE LET i == MapIndex(m, k)
             n == Len(m)
             swapped == [m EXCEPT ![i] = m[n]]
         IN SubSeq(swapped, 1, n - 1)

StakeInfo(amount, start_time) == [amount |-> amount, start_time |-> start_time]

(***************************************************************************)
(* Integer arithmetic of the build: an overflowing operation panics when   *)
(* the build checks overflow and wraps otherwise.                          *)
(***************************************************************************)
Overflows(x, max) == x < 0 \/ x > max
Wrap(x, max) == x % (max + 1)

(***************************************************************************)
(* The contract state as one record, and handler outcomes.                 *)
(***************************************************************************)
Self ==
    [owner_id |-> owner_id, token_contract |-> token_contract,
     staked_balances |-> staked_balances, user_states |-> user_states,
     stake_amount |-> stake_amount, lock_duration |-> lock_duration,
     stake_paused |-> stake_paused, total_staked |-> total_staked,
     total_user |-> total_user]

NoPromise == <<>>

Panic(self, msg) ==
    [panic |-> msg, self |-> self, ret |-> 0, promise |-> NoPromise]

Return(self, ret, promise) ==
    [panic |-> "", self |-> self, ret |-> ret, promise |-> promise]


assert_one_yocto(attached_deposit) == attached_deposit = 1

(***************************************************************************)
(* Owner's configuration calls.                                            *)
(***************************************************************************)
pause_stake(self, predecessor, attached_deposit, pause) ==
    IF ~assert_one_yocto(attached_deposit)
    THEN Panic(self, "Requires attached deposit of exactly 1 yoctoNEAR")
    ELSE IF self.owner_id # predecessor
    THEN Panic(self, "Only the owner can pause or start stake.")
    ELSE Return([self EXCEPT !.stake_paused = pause], 0, NoPromise)

set_lock_duration(self, predecessor, attached_deposit, new_lock_duration) ==
    IF ~assert_one_yocto(attached_deposit)
    THEN Panic(self, "Requires attached deposit of exactly 1 yoctoNEAR")
    ELSE IF self.owner_id # predecessor
    THEN Panic(self, "Only the owner can set lock duration.")
    ELSE Return([self EXCEPT !.lock_duration = new_lock_duration], 0, NoPromise)

update_owner(self, predecessor, attached_deposit, new_owner) ==
    IF ~assert_one_yocto(attached_deposit)
    THEN Panic(self, "Requires attached deposit of exactly 1 yoctoNEAR")
    ELSE IF predecessor # self.owner_id
    THEN Panic(self, "Owner's method")
    ELSE IF new_owner = ""
    THEN Panic(self, "New owner cannot be empty")
    ELSE Return([self EXCEPT !.owner_id = new_owner], 1, NoPromise)

\* slip: the new amount is not required to be more than 0
set_stake_amount_any(self, predecessor, attached_deposit, new_stake_amount) ==
    IF ~assert_one_yocto(attached_deposit)
    THEN Panic(self, "Requires attached deposit of exactly 1 yoctoNEAR")
    ELSE IF self.owner_id # predecessor
    THEN Panic(self, "Only the owner can set stake amount.")
    ELSE Return([self EXCEPT !.stake_amount = new_stake_amount], 0, NoPromise)

set_stake_amount(self, predecessor, attached_deposit, new_stake_amount) ==
    IF ~assert_one_yocto(attached_deposit)
    THEN Panic(self, "Requires attached deposit of exactly 1 yoctoNEAR")
    ELSE IF self.owner_id # predecessor
    THEN Panic(self, "Only the owner can set stake amount.")
    ELSE LET amount == new_stake_amount
         IN IF ~(amount > 0)
            THEN Panic(self, "Amount should gt 0.")
            ELSE Return([self EXCEPT !.stake_amount = amount], 0, NoPromise)

(***************************************************************************)
(* The match on the caller's operation state in unstake: the panic         *)
(* message, or "" when the call may proceed.                               *)
(***************************************************************************)
unstake_state_check(state) ==
    IF state = "Staking"
    THEN "Cannot unstake while staking is in progress."
    ELSE IF state = "Unstaking"
    THEN "Unstake operation already in progress."
    ELSE ""

(***************************************************************************)
(* The require! on the lock: start_time + lock_duration in u64.            *)
(***************************************************************************)
lock_elapsed(current_time, unlock_time) ==
    current_time >= Wrap(unlock_time, U64MAX)

(***************************************************************************)
(* unstake: the lock of the account is taken before the time check; the    *)
(* record is removed and ft_transfer plus the callback are scheduled.      *)
(***************************************************************************)
unstake(self, predecessor, attached_deposit, timestamp, checks) ==
    IF ~assert_one_yocto(attached_deposit)
    THEN Panic(self, "Requires attached deposit of exactly 1 yoctoNEAR")
    ELSE
    LET account_id == predecessor
        stake_info == MapGet(self.staked_balances, account_id)
    IN
    IF ~stake_info.present
    THEN Panic(self, "No stake found for this account")
    ELSE IF unstake_state_check(self.user_states[account_id]) # ""
    THEN Panic(self, unstake_state_check(self.user_states[account_id]))
    ELSE
    LET s1 == [self EXCEPT !.user_states[account_id] = "Unstaking"]
        current_time == timestamp \div NANOSECONDS
        unlock_time == stake_info.start_time + self.lock_duration
    IN
    IF checks /\ Overflows(unlock_time, U64MAX)
    THEN Panic(s1, "attempt to add with overflow")
    ELSE IF ~lock_elapsed(current_time, unlock_time)
    THEN Panic(s1, "It is not yet time to unstake.")
    ELSE
    LET total_payout == stake_info.amount
        s2 == [s1 EXCEPT !.staked_balances = MapRemove(@, account_id)]
    IN Return(s2, total_payout,
              [receiver_id |-> account_id,
               amount |-> total_payout,
               account_id |-> account_id,
               stake_amount |-> stake_info.amount,
               start_time |-> stake_info.start_time])

(***************************************************************************)
(* Callback of the transfer scheduled by unstake: the Ok arm commits the   *)
(* withdrawal, the Err arm puts the record back.                           *)
(***************************************************************************)
\* slip of the Ok arm: the lock is not released
transfer_succeeded_keep_lock(self, account_id, amount, checks) ==
    Return([self EXCEPT !.total_staked = self.total_staked - amount,
                        !.total_user = self.total_user - 1],
           1, NoPromise)

\* slips of the Ok arm: a counter is not decremented
transfer_succeeded_keep_staked(self, account_id, amount, checks) ==
    Return([self EXCEPT !.total_user = self.total_user - 1,
                        !.user_states[account_id] = "Idle"],
           1, NoPromise)

transfer_succeeded_keep_user(self, account_id, amount, checks) ==
    Return([self EXCEPT !.total_staked = self.total_staked - amount,
                        !.user_states[account_id] = "Idle"],
           1, NoPromise)

transfer_succeeded(self, account_id, amount, checks) ==
    LET staked == self.total_staked - amount
        users == self.total_user - 1
    IN
    IF checks /\ Overflows(staked, U128MAX)
    THEN Panic(self, "attempt to subtract with overflow")
    ELSE IF checks /\ Overflows(users, U64MAX)
    THEN Panic([self EXCEPT !.total_staked = staked],
               "attempt to subtract with overflow")
    ELSE Return([self EXCEPT !.total_staked = Wrap(staked, U128MAX),
                             !.total_user = Wrap(users, U64MAX),
                             !.user_states[account_id] = "Idle"],
                1, NoPromise)

\* slips of the Err arm: the record is not put back; the lock is not released
transfer_failed_no_restore(self, account_id, amount, start_time) ==
    Return([self EXCEPT !.user_states[account_id] = "Idle"], 0, NoPromise)

transfer_failed_keep_lock(self, account_id, amount, start_time) ==
    Return([self EXCEPT
              !.staked_balances =
                  MapInsert(@, account_id, StakeInfo(amount, start_time))],
           0, NoPromise)

transfer_failed(self, account_id, amount, start_time) ==
    LET stake_info == StakeInfo(amount, start_time)
    IN Return([self EXCEPT
                 !.staked_balances = MapInsert(@, account_id, stake_info),
                 !.user_states[account_id] = "Idle"],
              0, NoPromise)

on_ft_transfer_then_remove(self, predecessor, account_id, amount, start_time, call_result, checks) ==
    IF predecessor # Contract
    THEN Panic(self, "Method on_ft_transfer_then_remove is private")
    ELSE IF call_result = "Ok"
    THEN transfer_succeeded(self, account_id, amount, checks)
    ELSE transfer_failed(self, account_id, amount, start_time)

(***************************************************************************)
(* The match on the sender's operation state in ft_on_transfer: the panic  *)
(* message, or "" when the deposit may proceed.                            *)
(***************************************************************************)
\* slip: the sender's operation state is not looked at
stake_state_check_none(state) == ""

\* slip: a deposit is let through while a withdrawal is in progress
stake_state_check_unlocked(state) ==
    IF state = "Staking"
    THEN "Stake operation already in progress."
    ELSE ""

stake_state_check(state) ==
    IF state = "Staking"
    THEN "Stake operation already in progress."
    ELSE IF state = "Unstaking"
    THEN "Cannot stake while unstake is in progress."
    ELSE ""

(***************************************************************************)
(* The require! on the amount, and the test for a first stake.             *)
(***************************************************************************)
\* slips of the comparison: overshoot accepted; partial amounts accepted
appropriate_amount_at_least(sum, required) == sum >= required

appropriate_amount_at_most(sum, required) == sum <= required

appropriate_amount(sum, required) == sum = required

\* slip: no accepted deposit counts a new user
first_stake_never(base_amount) == FALSE

\* slip: every accepted deposit counts a new user
first_stake_always(base_amount) == TRUE

first_stake(base_amount) == base_amount = 0

(***************************************************************************)
(* ft_on_transfer: the deposit notification of the token contract.         *)
(***************************************************************************)
\* slip: the pause flag is not looked at
ft_on_transfer_ignore_pause(self, predecessor, timestamp, sender_id, amount, checks) ==
    IF predecessor # self.token_contract
    THEN Panic(self, "Only the specified token can be staked")
    ELSE IF stake_state_check(self.user_states[sender_id]) # ""
    THEN Panic(self, stake_state_check(self.user_states[sender_id]))
    ELSE
    LET s1 == [self EXCEPT !.user_states[sender_id] = "Staking"]
        current_time == timestamp \div NANOSECONDS
        found == MapGet(self.staked_balances, sender_id)
        stake_info == IF found.present
                      THEN StakeInfo(found.amount, found.start_time)
                      ELSE StakeInfo(0, current_time)
        base_amount == stake_info.amount
        inc_amount == amount
        required == self.stake_amount
        sum == base_amount + inc_amount
    IN
    IF checks /\ Overflows(sum, U128MAX)
    THEN Panic(s1, "attempt to add with overflow")
    ELSE IF ~appropriate_amount(Wrap(sum, U128MAX), required)
    THEN Panic(s1, "You need to stake an appropriate amount.")
    ELSE
    LET users == IF first_stake(base_amount) THEN self.total_user + 1
                 ELSE self.total_user
        staked == self.total_staked + inc_amount
        stored == StakeInfo(Wrap(sum, U128MAX), current_time)
    IN
    IF checks /\ (Overflows(users, U64MAX) \/ Overflows(staked, U128MAX))
    THEN Panic(s1, "attempt to add with overflow")
    ELSE Return([s1 EXCEPT
                   !.total_user = Wrap(users, U64MAX),
                   !.staked_balances = MapInsert(@, sender_id, stored),
                   !.total_staked = Wrap(staked, U128MAX),
                   !.user_states[sender_id] = "Idle"],
                0, NoPromise)

ft_on_transfer(self, predecessor, timestamp, sender_id, amount, checks) ==
    IF predecessor # self.token_contract
    THEN Panic(self, "Only the specified token can be staked")
    ELSE IF self.stake_paused # FALSE
    THEN Panic(self, "Stake paused")
    ELSE IF stake_state_check(self.user_states[sender_id]) # ""
    THEN Panic(self, stake_state_check(self.user_states[sender_id]))
    ELSE
    LET s1 == [self EXCEPT !.user_states[sender_id] = "Staking"]
        current_time == timestamp \div NANOSECONDS
        found == MapGet(self.staked_balances, sender_id)
        stake_info == IF found.present
                      THEN StakeInfo(found.amount, found.start_time)
                      ELSE StakeInfo(0, current_time)
        base_amount == stake_info.amount
        inc_amount == amount
        required == self.stake_amount
        sum == base_amount + inc_amount
    IN
    IF checks /\ Overflows(sum, U128MAX)
    THEN Panic(s1, "attempt to add with overflow")
    ELSE IF ~appropriate_amount(Wrap(sum, U128MAX), required)
    THEN Panic(s1, "You need to stake an appropriate amount.")
    ELSE
    LET users == IF first_stake(base_amount) THEN self.total_user + 1
                 ELSE self.total_user
        staked == self.total_staked + inc_amount
        stored == StakeInfo(Wrap(sum, U128MAX), current_time)
    IN
    IF checks /\ (Overflows(users, U64MAX) \/ Overflows(staked, U128MAX))
    THEN Panic(s1, "attempt to add with overflow")
    ELSE Return([s1 EXCEPT
                   !.total_user = Wrap(users, U64MAX),
                   !.staked_balances = MapInsert(@, sender_id, stored),
                   !.total_staked = Wrap(staked, U128MAX),
                   !.user_states[sender_id] = "Idle"],
                0, NoPromise)

(***************************************************************************)
(* Queries (&self): they return a value and leave the state as it is.      *)
(***************************************************************************)
get_stake_info(self, account_id) ==
    Return(self, MapGet(self.staked_balances, account_id), NoPromise)

\* slip: a record of exactly the threshold does not count as staked
user_staked_above(self, account_id) ==
    LET found == MapGet(self.staked_balances, account_id)
    IN Return(self,
              IF found.present
              THEN [staked |-> found.amount > self.stake_amount,
                    amount |-> found.amount, start_time |-> found.start_time]
              ELSE [staked |-> FALSE, amount |-> 0, start_time |-> 0],
              NoPromise)

user_staked(self, account_id) ==
    LET user_stake_info == [staked |-> FALSE, amount |-> 0, start_time |-> 0]
        found == MapGet(self.staked_balances, account_id)
    IN Return(self,
              IF found.present
              THEN [staked |-> found.amount >= self.stake_amount,
                    amount |-> found.amount, start_time |-> found.start_time]
              ELSE user_stake_info,
              NoPromise)

unwrap_or(option, default) == IF option = None THEN default ELSE option

\* `x as usize`: the low bits of x that fit the target's usize
as_usize(x, usize_max) == x % (usize_max + 1)

Min(x, y) == IF x <= y THEN x ELSE y

\* iter().skip(n).take(k).collect()
SkipTake(m, n, k) == SubSeq(m, n + 1, Min(n + k, Len(m)))

search_stake_infos(self, offset, limit, usize_max) ==
    LET start == unwrap_or(offset, 0)
        l == unwrap_or(limit, 50)
    IN Return(self,
              SkipTake(self.staked_balances, as_usize(start, usize_max),
                       as_usize(l, usize_max)),
              NoPromise)

(***************************************************************************)
(* The runtime: a call that returns commits the state the handler left; a  *)
(* call that panics commits nothing, whatever the handler had written.     *)
(***************************************************************************)
After(self, r) == IF r.panic = "" THEN r.self ELSE self

Rejected(r) == r.panic # ""

Commit(r) ==
    LET after == After(Self, r)
    IN /\ owner_id' = after.owner_id
       /\ token_contract' = after.token_contract
       /\ staked_balances' = after.staked_balances
       /\ user_states' = after.user_states
       /\ stake_amount' = after.stake_amount
       /\ lock_duration' = after.lock_duration
       /\ stake_paused' = after.stake_paused
       /\ total_staked' = after.total_staked
       /\ total_user' = after.total_user

(***************************************************************************)
(* last: the deposit, unstake or callback that returned in the last step,  *)
(* NoCall after an owner's call or the passing of time.  A call that       *)
(* panics leaves no trace.                                                 *)
(***************************************************************************)
NoCall == [op |-> "-", account |-> NoAccount, arg |-> 0, ret |-> 0]

Call(op, account, arg, r) ==
    IF Rejected(r) THEN last
    ELSE [op |-> op, account |-> account, arg |-> arg, ret |-> r.ret]

OwnerCall(r) == IF Rejected(r) THEN last ELSE NoCall

Init ==
    /\ owner_id = Owner0
    /\ token_contract = Token
    /\ staked_balances = <<>>
    /\ user_states = [a \in Users |-> "None"]
    /\ stake_paused = FALSE
    /\ lock_duration = 2 * WEEK
    /\ stake_amount = STAKE_AMOUNT
    /\ total_staked = 0
    /\ total_user = 0
    /\ block_timestamp = 0
    /\ promises = <<>>
    /\ overflow_checks \in BOOLEAN
    /\ last = NoCall

PauseStake ==
    \E predecessor \in {Owner0, "alice"}, attached_deposit \in {0, 1},
       pause \in BOOLEAN :
        LET r == pause_stake(Self, predecessor, attached_deposit, pause)
        IN /\ Commit(r)
           /\ last' = OwnerCall(r)
           /\ UNCHANGED <<block_timestamp, promises, overflow_checks>>

SetLockDuration ==
    \E predecessor \in {Owner0, "alice"}, attached_deposit \in {0, 1},
       new_lock_duration \in LockChoices :
        LET r == set_lock_duration(Self, predecessor, attached_deposit,
                                   new_lock_duration)
        IN /\ Commit(r)
           /\ last' = OwnerCall(r)
           /\ UNCHANGED <<block_timestamp, promises, overflow_checks>>

UpdateOwner ==
    \E predecessor \in {Owner0, "alice"}, attached_deposit \in {0, 1},
       new_owner \in {"", "alice"} :
        LET r == update_owner(Self, predecessor, attached_deposit, new_owner)
        IN /\ Commit(r)
           /\ last' = OwnerCall(r)
           /\ UNCHANGED <<block_timestamp, promises, overflow_checks>>

SetStakeAmount ==
    \E predecessor \in {Owner0, "alice"}, attached_deposit \in {0, 1},
       new_stake_amount \in Amounts :
        LET r == set_stake_amount(Self, predecessor, attached_deposit,
                                  new_stake_amount)
        IN /\ Commit(r)
           /\ last' = OwnerCall(r)
           /\ UNCHANGED <<block_timestamp, promises, overflow_checks>>

(***************************************************************************)
(* A pending withdrawal: the promise unstake scheduled, with the record    *)
(* of the account as it was when unstake was called.                       *)
(***************************************************************************)
Pending(promise, before) ==
    [receiver_id |-> promise.receiver_id, amount |-> promise.amount,
     account_id |-> promise.account_id,
     stake_amount |-> promise.stake_amount,
     start_time |-> promise.start_time, before |-> before]

Unstake ==
    \E predecessor \in Users, attached_deposit \in {0, 1} :
        LET r == unstake(Self, predecessor, attached_deposit,
                         block_timestamp, overflow_checks)
            before == MapGet(staked_balances, predecessor)
        IN /\ Commit(r)
           /\ promises' = IF Rejected(r) THEN promises
                          ELSE Append(promises, Pending(r.promise, before))
           /\ last' = Call("unstake", predecessor, 0, r)
           /\ UNCHANGED <<block_timestamp, overflow_checks>>

RemoveAt(q, i) == SubSeq(q, 1, i - 1) \o SubSeq(q, i + 1, Len(q))

(***************************************************************************)
(* The token contract resolves a scheduled ft_transfer, with either        *)
(* result, and the runtime delivers the callback, once.                    *)
(***************************************************************************)
PendingFor(account_id) ==
    {i \in DOMAIN promises : promises[i].account_id = account_id}

ResolveFor(account_id) ==
    \E i \in PendingFor(account_id), call_result \in {"Ok", "Err"} :
        LET p == promises[i]
            r == on_ft_transfer_then_remove(Self, Contract, p.account_id,
                                            p.stake_amount, p.start_time,
                                            call_result, overflow_checks)
        IN /\ Commit(r)
           /\ promises' = RemoveAt(promises, i)
           /\ last' = Call("on_ft_transfer_then_remove", p.account_id,
                           p.stake_amount, r)
           /\ UNCHANGED <<block_timestamp, overflow_checks>>

ResolveTransfer == \E account_id \in Users : ResolveFor(account_id)

(***************************************************************************)
(* An account other than the contract calls the private callback.          *)
(***************************************************************************)
CallPrivate ==
    \E predecessor \in {"alice"}, account_id \in Users,
       amount \in {STAKE_AMOUNT}, call_result \in {"Ok", "Err"} :
        LET r == on_ft_transfer_then_remove(Self, predecessor, account_id,
                                            amount, 0, call_result,
                                            overflow_checks)
        IN /\ Commit(r)
           /\ last' = Call("on_ft_transfer_then_remove", account_id,
                           amount, r)
           /\ UNCHANGED <<block_timestamp, promises, overflow_checks>>

Deposit ==
    \E predecessor \in {Token, "alice"}, sender_id \in Users,
       amount \in Amounts :
        LET r == ft_on_transfer(Self, predecessor, block_timestamp, sender_id,
                                amount, overflow_checks)
        IN /\ Commit(r)
           /\ last' = Call("ft_on_transfer", sender_id, amount, r)
           /\ UNCHANGED <<block_timestamp, promises, overflow_checks>>

(***************************************************************************)
(* Queries: any account may call them, at any time.                        *)
(***************************************************************************)
GetStakeInfo ==
    \E account_id \in Users :
        LET r == get_stake_info(Self, account_id)
        IN /\ Commit(r)
           /\ UNCHANGED <<block_timestamp, promises, overflow_checks, last>>

UserStaked ==
    \E account_id \in Users :
        LET r == user_staked(Self, account_id)
        IN /\ Commit(r)
           /\ UNCHANGED <<block_timestamp, promises, overflow_checks, last>>

SearchStakeInfos ==
    \E offset \in {None, 1}, limit \in {None, 1}, usize_max \in Targets :
        LET r == search_stake_infos(Self, offset, limit, usize_max)
        IN /\ Commit(r)
           /\ UNCHANGED <<block_timestamp, promises, overflow_checks, last>>

Tick ==
    /\ block_timestamp < MaxTicks * HalfSecond
    /\ block_timestamp' = block_timestamp + HalfSecond
    /\ last' = NoCall
    /\ UNCHANGED <<contract_vars, promises, overflow_checks>>

Next ==
    \/ PauseStake
    \/ SetLockDuration
    \/ UpdateOwner
    \/ SetStakeAmount
    \/ Unstake
    \/ ResolveTransfer
    \/ CallPrivate
    \/ Deposit
    \/ GetStakeInfo
    \/ UserStaked
    \/ SearchStakeInfos
    \/ Tick

Spec == Init /\ [][Next]_vars

(***************************************************************************)
(* The runtime resolves every scheduled promise and delivers its callback. *)
(***************************************************************************)
FairSpec == Spec /\ \A account_id \in Users : WF_vars(ResolveFor(account_id))

(***************************************************************************)
(* Vocabulary of the properties.                                           *)
(***************************************************************************)
BlockSeconds == block_timestamp \div NANOSECONDS

Record(account_id) == MapGet(staked_balances, account_id)

Free(account_id) == user_states[account_id] \in {"None", "Idle"}

RECURSIVE SumAmounts(_)
SumAmounts(m) ==
    IF m = <<>> THEN 0 ELSE Head(m).value.amount + SumAmounts(Tail(m))

\* amounts a deposit is tried with: the model's inputs and the neighbours
\* of the threshold
ProbeAmounts ==
    Amounts \cup {stake_amount - 1, stake_amount + 1}

DepositBy(predecessor, sender_id, amount) ==
    ft_on_transfer(Self, predecessor, block_timestamp, sender_id, amount,
                   overflow_checks)

UnstakeBy(account_id, attached_deposit) ==
    unstake(Self, account_id, attached_deposit, block_timestamp,
            overflow_checks)

Deliver(p, call_result) ==
    on_ft_transfer_then_remove(Self, Contract, p.account_id, p.stake_amount,
                               p.start_time, call_result, overflow_checks)

(***************************************************************************)
(* C1  Exclusivity.  While a withdrawal of an account is pending (its      *)
(* unstake returned and its callback has not run), exactly one transfer is *)
(* in flight for the account, the account has no deposit in progress, and  *)
(* every deposit for the account and every further unstake by it is        *)
(* rejected and leaves the whole contract state, hence the account's       *)
(* record, its operation state and both counters, unchanged.               *)
(***************************************************************************)
Exclusivity ==
    \A a \in Users :
        PendingFor(a) # {} =>
            /\ Cardinality(PendingFor(a)) = 1
            /\ user_states[a] # "Staking"
            /\ \A predecessor \in {Token, "alice"}, amount \in ProbeAmounts :
                   LET r == DepositBy(predecessor, a, amount)
                   IN Rejected(r) /\ After(Self, r) = Self
            /\ \A attached_deposit \in {0, 1} :
                   LET r == UnstakeBy(a, attached_deposit)
                   IN Rejected(r) /\ After(Self, r) = Self

\* a withdrawal is pending, and the deposit that would otherwise be taken
\* (token contract, not paused, exactly the threshold) is refused for it
ExclusivityWitness ==
    \E a \in Users :
        /\ last.op = "unstake" /\ last.account = a
        /\ PendingFor(a) # {}
        /\ ~stake_paused
        /\ DepositBy(Token, a, stake_amount).panic
               = "Cannot stake while unstake is in progress."
        /\ UnstakeBy(a, 1).panic = "No stake found for this account"

(***************************************************************************)
(* C2  Rollback path.  Delivering a failed transfer result for a pending   *)
(* withdrawal puts back the record exactly as it was immediately before    *)
(* unstake (amount and start_time), leaves total_staked and total_user as  *)
(* they are (unstake did not change them either) and sets the account's    *)
(* operation state to Idle, whatever stake_amount and lock_duration are by *)
(* then.                                                                   *)
(***************************************************************************)
RollbackPath ==
    \A i \in DOMAIN promises :
        LET p == promises[i]
            r == Deliver(p, "Err")
            s == After(Self, r)
        IN /\ ~Rejected(r)
           /\ MapGet(s.staked_balances, p.account_id) = p.before
           /\ p.before.present
           /\ s.total_staked = total_staked
           /\ s.total_user = total_user
           /\ s.user_states[p.account_id] = "Idle"
           /\ \A b \in Users \ {p.account_id} :
                  /\ MapGet(s.staked_balances, b) = Record(b)
                  /\ s.user_states[b] = user_states[b]

\* a withdrawal was rolled back after the owner had changed the threshold
RollbackPathWitness ==
    /\ last.op = "on_ft_transfer_then_remove" /\ last.ret = 0
    /\ Record(last.account).present
    /\ Record(last.account).amount = last.arg
    /\ Record(last.account).amount # stake_amount
    /\ user_states[last.account] = "Idle"

(***************************************************************************)
(* C3  Commit path.  Delivering a successful transfer result for a pending *)
(* withdrawal decreases total_staked by exactly the withdrawn amount and   *)
(* total_user by exactly 1, sets the account's operation state to Idle and *)
(* leaves the account without a record.                                    *)
(***************************************************************************)
CommitPath ==
    \A i \in DOMAIN promises :
        LET p == promises[i]
            r == Deliver(p, "Ok")
            s == After(Self, r)
        IN /\ ~Rejected(r)
           /\ p.stake_amount = p.before.amount
           /\ s.total_staked = total_staked - p.stake_amount
           /\ s.total_user = total_user - 1
           /\ s.user_states[p.account_id] = "Idle"
           /\ ~MapHas(s.staked_balances, p.account_id)

CommitPathWitness ==
    /\ last.op = "on_ft_transfer_then_remove" /\ last.ret = 1
    /\ last.arg > 0
    /\ ~Record(last.account).present
    /\ user_states[last.account] = "Idle"

LockTiming ==
    \A a \in Users :
        (Record(a).present /\ Free(a)) =>
            LET r == UnstakeBy(a, 1)
            IN IF BlockSeconds < Record(a).start_time + lock_duration
               THEN Rejected(r) /\ After(Self, r) = Self
               ELSE ~Rejected(r)

(***************************************************************************)
(* C6  Every pending withdrawal leads to the account's operation state     *)
(* being Idle, and the step that takes an account out of Unstaking either  *)
(* commits the withdrawal (no record, both counters decremented) or rolls  *)
(* it back (the record as before unstake, both counters untouched).        *)
(***************************************************************************)
Settled(a) ==
    LET p == promises[CHOOSE i \in PendingFor(a) : TRUE]
    IN /\ user_states'[a] = "Idle"
       /\ \/ /\ ~MapHas(staked_balances', a)
             /\ total_staked' = total_staked - p.before.amount
             /\ total_user' = total_user - 1
          \/ /\ MapGet(staked_balances', a) = p.before
             /\ total_staked' = total_staked
             /\ total_user' = total_user

WithdrawalSettles ==
    /\ \A a \in Users : (PendingFor(a) # {}) ~> (user_states[a] = "Idle")
    /\ [][\A a \in Users :
            (user_states[a] = "Unstaking" /\ user_states'[a] # "Unstaking")
                => (PendingFor(a) # {} /\ Settled(a))]_vars

WithdrawalSettlesWitness ==
    /\ last.op = "on_ft_transfer_then_remove"
    /\ PendingFor(last.account) = {}
    /\ user_states[last.account] = "Idle"
    /\ promises # <<>>

(***************************************************************************)
(* C7  Exact-threshold deposit.  A deposit notified by the token contract  *)
(* while staking is not paused and the sender has no operation in progress *)
(* is accepted if and only if the recorded amount (0 without a record)     *)
(* plus the deposited amount equals stake_amount.  When accepted, the      *)
(* record holds stake_amount and the current time, total_staked has grown  *)
(* by the amount, total_user by 1 exactly when the recorded amount was 0,  *)
(* the sender is Idle and 0 is returned; when rejected both counters are   *)
(* unchanged.                                                              *)
(***************************************************************************)
ExactThresholdDeposit ==
    \A a \in Users, amount \in ProbeAmounts :
        (token_contract = Token /\ ~stake_paused /\ Free(a) /\ amount >= 0) =>
            LET r == DepositBy(Token, a, amount)
                s == After(Self, r)
                existing == Record(a).amount
            IN /\ ~Rejected(r) <=> (existing + amount = stake_amount)
               /\ ~Rejected(r) =>
                    /\ MapGet(s.staked_balances, a)
                         = [amount |-> stake_amount,
                            start_time |-> BlockSeconds, present |-> TRUE]
                    /\ s.total_staked = total_staked + amount
                    /\ s.total_user
                         = total_user + (IF existing = 0 THEN 1 ELSE 0)
                    /\ s.user_states[a] = "Idle"
                    /\ r.ret = 0
               /\ Rejected(r) =>
                    /\ s.total_staked = total_staked
                    /\ s.total_user = total_user

ExactThresholdDepositWitness ==
    /\ last.op = "ft_on_transfer" /\ last.arg = stake_amount
    /\ Record(last.account)
         = [amount |-> stake_amount, start_time |-> BlockSeconds,
            present |-> TRUE]
    /\ BlockSeconds > 0
    /\ \E amount \in Amounts :
           Rejected(DepositBy(Token, last.account, amount))

(***************************************************************************)
(* Deposits of one account in a row: the state after them and whether     *)
(* every one of them was accepted.                                         *)
(***************************************************************************)
RECURSIVE DepositAll(_, _, _)
DepositAll(self, sender_id, amounts) ==
    IF amounts = <<>> THEN [self |-> self, accepted |-> TRUE]
    ELSE LET r == ft_on_transfer(self, Token, block_timestamp, sender_id,
                                 Head(amounts), overflow_checks)
             rest == DepositAll(After(self, r), sender_id, Tail(amounts))
         IN [self |-> rest.self,
             accepted |-> ~Rejected(r) /\ rest.accepted]

RECURSIVE SumSeq(_)
SumSeq(q) == IF q = <<>> THEN 0 ELSE Head(q) + SumSeq(Tail(q))

\* the sequences of 1 .. MaxRun deposits whose amounts sum to the threshold
ThresholdSequences ==
    {q \in UNION {[1 .. n -> Amounts] : n \in 1 .. MaxRun} :
        SumSeq(q) = stake_amount}

\* those made of increments proper, each more than 0
IncrementSequences ==
    {q \in ThresholdSequences : \A i \in DOMAIN q : q[i] > 0}

CanStartDepositing(a) ==
    /\ token_contract = Token /\ ~stake_paused
    /\ Free(a) /\ ~Record(a).present

(***************************************************************************)
(* C8  Multi-increment deposits, as claimed: with stake_amount unchanged,  *)
(* every sequence of N >= 1 deposits of one account whose amounts sum to   *)
(* exactly stake_amount has every deposit accepted and leaves the account  *)
(* with a record holding stake_amount.  Stated for increments of more than *)
(* 0, the reading most favourable to the claim.                            *)
(***************************************************************************)
MultiIncrementDeposits ==
    \A a \in Users :
        CanStartDepositing(a) =>
            \A q \in IncrementSequences :
                LET d == DepositAll(Self, a, q)
                IN /\ d.accepted
                   /\ MapGet(d.self.staked_balances, a).amount = stake_amount

(***************************************************************************)
(* C8  Multi-increment deposits, amended: such a sequence has every        *)
(* deposit accepted if and only if its first amount is stake_amount (the   *)
(* later ones then being 0), and the account then ends with a record       *)
(* holding stake_amount; a sequence that starts with a smaller increment   *)
(* has a deposit rejected.                                                 *)
(***************************************************************************)
SingleStepThreshold ==
    \A a \in Users :
        CanStartDepositing(a) =>
            \A q \in ThresholdSequences :
                LET d == DepositAll(Self, a, q)
                IN /\ d.accepted <=> (q[1] = stake_amount)
                   /\ d.accepted =>
                        MapGet(d.self.staked_balances, a).amount = stake_amount

\* a second deposit of a sequence (of amount 0) was accepted on top of the
\* first, which had met the threshold alone
SingleStepThresholdWitness ==
    /\ last.op = "ft_on_transfer" /\ last.arg = 0
    /\ Record(last.account).amount = stake_amount
    /\ stake_amount = MaxStakeUnits * STAKE_AMOUNT
    /\ \E b \in Users :
           /\ CanStartDepositing(b)
           /\ ~DepositAll(Self, b, <<STAKE_AMOUNT,
                                     stake_amount - STAKE_AMOUNT>>).accepted

(***************************************************************************)
(* C9  All-or-nothing errors.  A deposit notified by a caller other than   *)
(* the token contract, a deposit while staking is paused, a deposit whose  *)
(* amount does not land on the threshold, a deposit or unstake while the   *)
(* account's operation state is not Idle, an unstake without a record, an  *)
(* unstake before the lock has elapsed, an owner's call by a non-owner and *)
(* set_stake_amount(0) leave the whole contract state as it was.           *)
(***************************************************************************)
AllOrNothing ==
    /\ \A a \in Users, predecessor \in {Token, "alice"},
          amount \in ProbeAmounts :
           (\/ predecessor # token_contract
            \/ stake_paused
            \/ Record(a).amount + amount # stake_amount
            \/ ~Free(a))
               => After(Self, DepositBy(predecessor, a, amount)) = Self
    /\ \A a \in Users :
           (\/ ~Free(a)
            \/ ~Record(a).present
            \/ BlockSeconds < Record(a).start_time + lock_duration)
               => After(Self, UnstakeBy(a, 1)) = Self
    /\ \A predecessor \in Ids \ {owner_id} :
           /\ \A pause \in BOOLEAN :
                  After(Self, pause_stake(Self, predecessor, 1, pause)) = Self
           /\ \A d \in LockChoices :
                  After(Self, set_lock_duration(Self, predecessor, 1, d))
                      = Self
           /\ \A new_owner \in Ids :
                  After(Self, update_owner(Self, predecessor, 1, new_owner))
                      = Self
           /\ \A amount \in Amounts :
                  After(Self, set_stake_amount(Self, predecessor, 1, amount))
                      = Self
    /\ After(Self, set_stake_amount(Self, owner_id, 1, 0)) = Self

(***************************************************************************)
(* C10  Top-up after a threshold increase.  For an account whose record    *)
(* holds T1, once the owner has raised stake_amount to T2 > T1, a deposit  *)
(* of exactly T2 - T1 is accepted: the record's amount becomes T2,         *)
(* total_user is not incremented again and total_staked rises by T2 - T1.  *)
(***************************************************************************)
TopUpAfterIncrease ==
    \A a \in Users :
        (/\ token_contract = Token /\ ~stake_paused /\ Free(a)
         /\ Record(a).present
         /\ Record(a).amount < stake_amount) =>
            LET top_up == stake_amount - Record(a).amount
                r == DepositBy(Token, a, top_up)
                s == After(Self, r)
            IN /\ ~Rejected(r)
               /\ MapGet(s.staked_balances, a).amount = stake_amount
               /\ s.total_user = total_user
               /\ s.total_staked = total_staked + top_up

TopUpAfterIncreaseWitness ==
    /\ last.op = "ft_on_transfer" /\ last.arg > 0
    /\ Record(last.account).amount = stake_amount
    /\ Record(last.account).amount > last.arg
    /\ total_user = 1
    /\ total_staked = stake_amount

(***************************************************************************)
(* C11  Is-staked view.  In every state and for every account, user_staked *)
(* returns {staked: false, amount: 0, start_time: 0} when the account has  *)
(* no record (it never staked, its withdrawal is pending, or its           *)
(* withdrawal was committed) and otherwise the record's amount and         *)
(* start_time, with staked true exactly when the recorded amount is at     *)
(* least stake_amount; get_stake_info returns none exactly when there is   *)
(* no record; neither query changes the state.                             *)
(***************************************************************************)
HasRecord(account_id) ==
    \E i \in DOMAIN staked_balances : staked_balances[i].key = account_id

IsStakedView ==
    \A a \in Users :
        LET r == user_staked(Self, a)
            g == get_stake_info(Self, a)
        IN /\ ~Rejected(r) /\ After(Self, r) = Self
           /\ ~Rejected(g) /\ After(Self, g) = Self
           /\ (user_states[a] = "None" \/ PendingFor(a) # {}) => ~HasRecord(a)
           /\ ~g.ret.present <=> ~HasRecord(a)
           /\ ~HasRecord(a) =>
                  r.ret = [staked |-> FALSE, amount |-> 0, start_time |-> 0]
           /\ HasRecord(a) =>
                  \E i \in DOMAIN staked_balances :
                      /\ staked_balances[i].key = a
                      /\ r.ret.amount = staked_balances[i].value.amount
                      /\ r.ret.start_time = staked_balances[i].value.start_time
                      /\ r.ret.staked
                           <=> staked_balances[i].value.amount >= stake_amount
                      /\ g.ret.amount = r.ret.amount
                      /\ g.ret.start_time = r.ret.start_time

\* one account's record meets the threshold exactly and is reported staked
\* with its start time, while the other's withdrawal is pending and is
\* reported as not staked with amount 0
IsStakedViewWitness ==
    \E a, b \in Users :
        /\ HasRecord(a) /\ Record(a).amount = stake_amount
        /\ user_staked(Self, a).ret
             = [staked |-> TRUE, amount |-> stake_amount,
                start_time |-> BlockSeconds]
        /\ BlockSeconds > 0
        /\ PendingFor(b) # {}
        /\ user_staked(Self, b).ret
             = [staked |-> FALSE, amount |-> 0, start_time |-> 0]
        /\ ~get_stake_info(Self, b).ret.present

(***************************************************************************)
(* Pages of the ledger: the arguments search_stake_infos is tried with     *)
(* (absent, small, and the first value that does not fit a 32-bit usize),  *)
(* and the pages of l entries from an offset on, one after the other.      *)
(***************************************************************************)
PageArgs == {None} \cup (0 .. Cardinality(Users) + 1) \cup {USIZE32MAX + 1}

Max(x, y) == IF x >= y THEN x ELSE y

RECURSIVE PagesFrom(_, _, _)
PagesFrom(start, l, usize_max) ==
    IF start >= Len(staked_balances) THEN <<>>
    ELSE search_stake_infos(Self, start, l, usize_max).ret
             \o PagesFrom(start + l, l, usize_max)

(***************************************************************************)
(* C12  Pagination.  On every target and in every state,                   *)
(* search_stake_infos(offset, limit) returns the entries at positions      *)
(* offset .. offset+limit-1 of the one enumeration of all (account,        *)
(* record) pairs, so its length is min(limit, max(0, size - offset)) with  *)
(* offset defaulting to 0 and limit to 50; an offset >= size returns the   *)
(* empty list, the call changes no state (so repeated calls return the     *)
(* same slice), and consecutive pages concatenate to the whole             *)
(* enumeration, every account with a record appearing exactly once.        *)
(***************************************************************************)
Pagination ==
    \A usize_max \in Targets :
        /\ \A offset \in PageArgs, limit \in PageArgs :
               LET r == search_stake_infos(Self, offset, limit, usize_max)
                   start == unwrap_or(offset, 0)
                   l == unwrap_or(limit, 50)
                   size == Len(staked_balances)
                   n == Min(l, Max(0, size - start))
               IN /\ ~Rejected(r) /\ After(Self, r) = Self
                  /\ Len(r.ret) = n
                  /\ \A i \in 1 .. n : r.ret[i] = staked_balances[start + i]
                  /\ start >= size => r.ret = <<>>
        /\ \A l \in 1 .. Cardinality(Users) + 1 :
               PagesFrom(0, l, usize_max) = staked_balances
        /\ \A a \in Users :
               Cardinality({i \in DOMAIN staked_balances :
                               staked_balances[i].key = a})
                   = IF Record(a).present THEN 1 ELSE 0

LockTransitions ==
    /\ [](\A a \in Users :
             /\ \A predecessor \in {Token, "alice"}, amount \in ProbeAmounts :
                    LET r == DepositBy(predecessor, a, amount)
                    IN /\ r.self.user_states[a] # user_states[a] =>
                              /\ Free(a)
                              /\ r.self.user_states[a]
                                   = IF Rejected(r) THEN "Staking" ELSE "Idle"
                       /\ ~Rejected(r) => r.self.user_states[a] = "Idle"
                       /\ \A b \in Users \ {a} :
                              r.self.user_states[b] = user_states[b]
             /\ \A attached_deposit \in {0, 1} :
                    LET r == UnstakeBy(a, attached_deposit)
                    IN /\ r.self.user_states[a] # user_states[a] =>
                              /\ Free(a)
                              /\ r.self.user_states[a] = "Unstaking"
                       /\ ~Rejected(r) => r.self.user_states[a] = "Unstaking"
                       /\ \A b \in Users \ {a} :
                              r.self.user_states[b] = user_states[b])
    /\ [][\A a \in Users :
            user_states'[a] # user_states[a] =>
                \/ /\ Free(a) /\ user_states'[a] = "Idle"
                   /\ last'.op = "ft_on_transfer" /\ last'.account = a
                \/ /\ Free(a) /\ user_states'[a] = "Unstaking"
                   /\ last'.op = "unstake" /\ last'.account = a
                \/ /\ user_states[a] = "Unstaking" /\ user_states'[a] = "Idle"
                   /\ last'.op = "on_ft_transfer_then_remove"
                   /\ last'.account = a
                   /\ Len(promises') = Len(promises) - 1]_vars

\* an account has gone through both cycles: after its deposit and its
\* unstake, the callback has released the lock, and a deposit by the other
\* account is turned down after it took the lock
LockTransitionsWitness ==
    \E b \in Users :
        /\ last.op = "on_ft_transfer_then_remove"
        /\ user_states[last.account] = "Idle"
        /\ b # last.account
        /\ user_states[b] = "None"
        /\ ~stake_paused
        /\ Rejected(DepositBy(Token, b, stake_amount + 1))
        /\ DepositBy(Token, b, stake_amount + 1).self.user_states[b]
             = "Staking"

(***************************************************************************)
(* The contract state with account a's part replaced: each operation state *)
(* in turn, without a record or with some record.                          *)
(***************************************************************************)
Variants(a) ==
    LET without == MapRemove(staked_balances, a)
        with == MapInsert(staked_balances, a, StakeInfo(STAKE_AMOUNT, 0))
    IN {[Self EXCEPT !.user_states[a] = "None", !.staked_balances = without],
        [Self EXCEPT !.user_states[a] = "Idle", !.staked_balances = with],
        [Self EXCEPT !.user_states[a] = "Staking", !.staked_balances = with],
        [Self EXCEPT !.user_states[a] = "Unstaking",
                     !.staked_balances = without]}

\* two outcomes of one operation of account b, from states v and w, are the
\* same as far as b and the counters go, and leave account a as it was in v
SameFor(a, b, v, rv, w, rw) ==
    LET sv == After(v, rv)
        sw == After(w, rw)
    IN /\ rv.panic = rw.panic
       /\ MapGet(sv.staked_balances, b) = MapGet(sw.staked_balances, b)
       /\ sv.user_states[b] = sw.user_states[b]
       /\ sv.total_staked - v.total_staked = sw.total_staked - w.total_staked
       /\ sv.total_user - v.total_user = sw.total_user - w.total_user
       /\ MapGet(sv.staked_balances, a) = MapGet(v.staked_balances, a)
       /\ sv.user_states[a] = v.user_states[a]

(***************************************************************************)
(* C15  Cross-account independence.  For two different accounts A and B,   *)
(* in any interleaving of their operations with every callback delivered   *)
(* at most once: a step changes A's record or operation state only if it   *)
(* is an operation of A; the outcome of B's deposit, unstake and callback  *)
(* is the same whatever A's record and operation state are, so B is never  *)
(* blocked by A; and every step changes total_staked and total_user by the *)
(* effect of the one operation it completes: plus the amount (and one      *)
(* account if the sender had no record) for a deposit, minus the amount    *)
(* and one account for a committed withdrawal, nothing otherwise.          *)
(***************************************************************************)
CrossAccountIndependence ==
    /\ [](\A a \in Users : \A b \in Users \ {a} :
             /\ \A amount \in {0, stake_amount} :
                    LET r == DepositBy(Token, b, amount)
                    IN \A v \in Variants(a) :
                           SameFor(a, b,
                                   v, ft_on_transfer(v, Token, block_timestamp,
                                                     b, amount,
                                                     overflow_checks),
                                   Self, r)
             /\ LET r == UnstakeBy(b, 1)
                IN \A v \in Variants(a) :
                       SameFor(a, b,
                               v, unstake(v, b, 1, block_timestamp,
                                          overflow_checks),
                               Self, r)
             /\ \A i \in PendingFor(b), call_result \in {"Ok", "Err"} :
                    LET p == promises[i]
                        r == Deliver(p, call_result)
                    IN \A v \in Variants(a) :
                           SameFor(a, b,
                                   v, on_ft_transfer_then_remove(
                                          v, Contract, p.account_id,
                                          p.stake_amount, p.start_time,
                                          call_result, overflow_checks),
                                   Self, r))
    /\ [][/\ \A a \in Users :
                (\/ MapGet(staked_balances', a) # Record(a)
                 \/ user_states'[a] # user_states[a]) => last'.account = a
          /\ Len(promises') < Len(promises) =>
                /\ \E i \in DOMAIN promises :
                       /\ promises' = RemoveAt(promises, i)
                       /\ promises[i].account_id = last'.account
                       /\ promises[i].stake_amount = last'.arg
                /\ \A j \in DOMAIN promises' :
                       promises'[j].account_id # last'.account
                /\ total_staked' = total_staked - last'.ret * last'.arg
                /\ total_user' = total_user - last'.ret
          /\ Len(promises') > Len(promises) =>
                /\ total_staked' = total_staked
                /\ total_user' = total_user
          /\ Len(promises') = Len(promises) =>
                IF last'.op = "ft_on_transfer"
                   /\ staked_balances' # staked_balances
                THEN /\ total_staked' = total_staked + last'.arg
                     /\ total_user' = total_user
                          + (IF HasRecord(last'.account) THEN 0 ELSE 1)
                ELSE /\ total_staked' = total_staked
                     /\ total_user' = total_user]_vars

\* B's withdrawal was committed while A's is still pending: the counters
\* now count A's pending withdrawal alone, and A's callback can still put
\* A's record back
CrossAccountIndependenceWitness ==
    \E a \in Users :
        /\ last.op = "on_ft_transfer_then_remove" /\ last.ret = 1
        /\ last.account # a
        /\ PendingFor(a) # {}
        /\ user_states[a] = "Unstaking"
        /\ user_states[last.account] = "Idle"
        /\ staked_balances = <<>>
        /\ total_user = 1
        /\ \E i \in PendingFor(a) : total_staked = promises[i].stake_amount

(***************************************************************************)
(* Sum of the amounts carried by the pending withdrawals.                  *)
(***************************************************************************)
RECURSIVE SumPending(_)
SumPending(q) ==
    IF q = <<>> THEN 0 ELSE Head(q).stake_amount + SumPending(Tail(q))

(***************************************************************************)
(* C16  Conservation including in-flight withdrawals.  In every reachable  *)
(* state total_staked is the sum of the amounts of all records plus the    *)
(* sum of the amounts carried by all pending withdrawals, and total_user   *)
(* is the number of records plus the number of pending withdrawals.        *)
(***************************************************************************)
Conservation ==
    /\ total_staked = SumAmounts(staked_balances) + SumPending(promises)
    /\ total_user = Len(staked_balances) + Len(promises)

\* one withdrawal is in flight beside a record that was topped up to a
\* raised threshold: the two amounts differ and both are counted
ConservationWitness ==
    /\ Len(promises) = 1 /\ Len(staked_balances) = 1
    /\ promises[1].stake_amount # staked_balances[1].value.amount
    /\ total_staked
         = promises[1].stake_amount + staked_balances[1].value.amount
    /\ total_user = 2

(***************************************************************************)
(* C17  Lock/record consistency.  In every state between calls no account  *)
(* has operation state Staking, so the "staking in progress" rejections of *)
(* ft_on_transfer and unstake never happen; an account has operation state *)
(* Unstaking if and only if exactly one withdrawal is pending for it, no   *)
(* account has more than one pending; and every account in Unstaking has   *)
(* no record.                                                              *)
(***************************************************************************)
LockRecordConsistency ==
    \A a \in Users :
        /\ user_states[a] # "Staking"
        /\ \A predecessor \in {Token, "alice"}, amount \in ProbeAmounts :
               DepositBy(predecessor, a, amount).panic
                   # "Stake operation already in progress."
        /\ \A attached_deposit \in {0, 1} :
               UnstakeBy(a, attached_deposit).panic
                   # "Cannot unstake while staking is in progress."
        /\ user_states[a] = "Unstaking" <=> Cardinality(PendingFor(a)) = 1
        /\ Cardinality(PendingFor(a)) <= 1
        /\ user_states[a] = "Unstaking" => ~HasRecord(a)

\* one account is in Unstaking with its one pending withdrawal and no
\* record, while the other, whose withdrawal was settled, is Idle with none
\* pending
LockRecordConsistencyWitness ==
    \E a, b \in Users :
        /\ user_states[a] = "Unstaking"
        /\ Cardinality(PendingFor(a)) = 1
        /\ ~HasRecord(a)
        /\ last.op = "on_ft_transfer_then_remove" /\ last.account = b
        /\ user_states[b] = "Idle"
        /\ PendingFor(b) = {}

(***************************************************************************)
(* C18  No counter underflow.  Every record stored has amount > 0, and     *)
(* whenever on_ft_transfer_then_remove runs with a successful result for a *)
(* pending withdrawal, total_staked >= the withdrawn amount and            *)
(* total_user >= 1 hold beforehand: the subtractions neither panic nor     *)
(* wrap, for any sequence of deposits, withdrawals and changes of          *)
(* stake_amount by the owner.                                              *)
(***************************************************************************)
NoCounterUnderflow ==
    /\ stake_amount > 0
    /\ \A i \in DOMAIN staked_balances : staked_balances[i].value.amount > 0
    /\ \A i \in DOMAIN promises :
           LET p == promises[i]
               r == Deliver(p, "Ok")
           IN /\ p.stake_amount > 0
              /\ total_staked >= p.stake_amount
              /\ total_user >= 1
              /\ ~Rejected(r)
              /\ r.self.total_staked = total_staked - p.stake_amount
              /\ r.self.total_user = total_user - 1
    /\ \A amount \in Amounts :
           LET r == set_stake_amount(Self, owner_id, 1, amount)
           IN ~Rejected(r) => r.self.stake_amount > 0

\* the callback has just taken both counters down to exactly zero, with a
\* withdrawn amount that is no longer the threshold
NoCounterUnderflowWitness ==
    /\ last.op = "on_ft_transfer_then_remove" /\ last.ret = 1
    /\ last.arg > 0 /\ last.arg # stake_amount
    /\ total_staked = 0 /\ total_user = 0
    /\ promises = <<>>

(***************************************************************************)
(* Block times, in seconds, at which an unstake is tried.                  *)
(***************************************************************************)
ProbeSeconds == 0 .. 2

(***************************************************************************)
(* C19  Zero-amount deposit restarts the lock.  A deposit of amount 0 for  *)
(* an account whose record's amount already equals stake_amount is         *)
(* accepted; it leaves the record's amount, total_staked and total_user as *)
(* they are and sets start_time to the current time, so that afterwards    *)
(* unstake succeeds at block time t exactly when                           *)
(* t >= current_time + lock_duration.                                      *)
(***************************************************************************)
ZeroDepositRestartsLock ==
    \A a \in Users :
        (/\ token_contract = Token /\ ~stake_paused /\ Free(a)
         /\ HasRecord(a) /\ Record(a).amount = stake_amount) =>
            LET r == DepositBy(Token, a, 0)
                s == After(Self, r)
            IN /\ ~Rejected(r)
               /\ MapGet(s.staked_balances, a)
                    = [amount |-> Record(a).amount,
                       start_time |-> BlockSeconds, present |-> TRUE]
               /\ s.total_staked = total_staked
               /\ s.total_user = total_user
               /\ \A t \in ProbeSeconds :
                      ~Rejected(unstake(s, a, 1, t * NANOSECONDS,
                                        overflow_checks))
                          <=> t >= BlockSeconds + lock_duration

(***************************************************************************)
(* The contract state with the pause flag turned the other way, and two    *)
(* outcomes of one call that differ in nothing but that flag.              *)
(***************************************************************************)
OtherPause(self) == [self EXCEPT !.stake_paused = ~self.stake_paused]

SameButPause(r, rv) ==
    /\ rv.panic = r.panic /\ rv.ret = r.ret /\ rv.promise = r.promise
    /\ rv.self = OtherPause(r.self)

(***************************************************************************)
(* C20  Pause affects deposits only.  While stake_paused is set every      *)
(* deposit is rejected and changes nothing; unstake and the callback do    *)
(* exactly what they do when the flag is the other way, so an unstake by   *)
(* an eligible account (record present, lock elapsed, no operation in      *)
(* progress) succeeds while paused and its callback commits or rolls back  *)
(* as usual; and a withdrawal that is pending while the flag is set still  *)
(* leads to the account being Idle.                                        *)
(***************************************************************************)
PauseDepositsOnly ==
    /\ [](\A a \in Users :
             /\ stake_paused =>
                    \A predecessor \in {Token, "alice"},
                       amount \in ProbeAmounts :
                        LET r == DepositBy(predecessor, a, amount)
                        IN Rejected(r) /\ After(Self, r) = Self
             /\ SameButPause(UnstakeBy(a, 1),
                             unstake(OtherPause(Self), a, 1, block_timestamp,
                                     overflow_checks))
             /\ (/\ stake_paused /\ HasRecord(a) /\ Free(a)
                 /\ BlockSeconds >= Record(a).start_time + lock_duration)
                    => ~Rejected(UnstakeBy(a, 1))
             /\ \A i \in PendingFor(a), call_result \in {"Ok", "Err"} :
                    LET p == promises[i]
                    IN /\ ~Rejected(Deliver(p, call_result))
                       /\ SameButPause(Deliver(p, call_result),
                                       on_ft_transfer_then_remove(
                                           OtherPause(Self), Contract,
                                           p.account_id, p.stake_amount,
                                           p.start_time, call_result,
                                           overflow_checks)))
    /\ \A a \in Users :
           (PendingFor(a) # {} /\ stake_paused) ~> (user_states[a] = "Idle")

\* while staking is paused a withdrawal has been rolled back: the record is
\* there again, a deposit for the account is refused because of the pause
\* and the account, its lock having elapsed, can unstake again
PauseDepositsOnlyWitness ==
    /\ stake_paused
    /\ last.op = "on_ft_transfer_then_remove" /\ last.ret = 0
    /\ HasRecord(last.account)
    /\ user_states[last.account] = "Idle"
    /\ DepositBy(Token, last.account, 0).panic = "Stake paused"
    /\ BlockSeconds >= Record(last.account).start_time + lock_duration
    /\ ~Rejected(UnstakeBy(last.account, 1))

=============================================================================
